---- MODULE Spec2Model ----
(***************************************************************************)
(* The POST /mcp handler of the Radio FM MCP server (src/src/index.ts) and *)
(* its latest variant (src/dist/index.js, lines 335-453).                  *)
(*                                                                         *)
(* A request is handled in two steps: the code of the try block up to      *)
(* `await axios.get(...)` (action Post), and the code after the await      *)
(* (action UpstreamSettles).  Several requests may be awaiting at once.    *)
(* `exchange` is the HTTP exchange that finished last: the request, the    *)
(* upstream reply it saw, the responses written with res.json, the         *)
(* upstream GETs issued, and whether an exception left the handler.        *)
(* `initialized` is a history variable, never read by the handler: whether *)
(* an initialize request has been served.  `formatted` is the last call of *)
(* formatRadioStation or formatPodcast made on its own.                    *)
(***************************************************************************)
EXTENDS Integers, Sequences, FiniteSets

VARIABLES alive, inflight, exchange, initialized, formatted

vars == <<alive, inflight, exchange, initialized, formatted>>

(***************************************************************************)
(* JavaScript values.  One record shape for all of them: t is the type tag,*)
(* n the payload of a number (or 1/0 for true/false), s that of a string.  *)
(* Obj is the object {} and Arr the array [].                              *)
(***************************************************************************)
Undefined == [t |-> "undefined", n |-> 0, s |-> ""]

Null == [t |-> "null", n |-> 0, s |-> ""]

Str(x) == [t |-> "string", n |-> 0, s |-> x]

Num(k) == [t |-> "number", n |-> k, s |-> ""]

Bool(b) == [t |-> "boolean", n |-> IF b THEN 1 ELSE 0, s |-> ""]

Obj == [t |-> "object", n |-> 0, s |-> ""]

Arr == [t |-> "array", n |-> 0, s |-> ""]

NaN == [t |-> "nan", n |-> 0, s |-> ""]

\* ToBoolean: what `!v` and `v || w` test.
Truthy(v) ==
    CASE v.t = "undefined" -> FALSE
      [] v.t = "null" -> FALSE
      [] v.t = "number" -> v.n # 0
      [] v.t = "string" -> v.s # ""
      [] v.t = "boolean" -> v.n = 1
      [] v.t = "nan" -> FALSE
      [] OTHER -> TRUE

Digit(d) ==
    CASE d = 0 -> "0" [] d = 1 -> "1" [] d = 2 -> "2" [] d = 3 -> "3"
      [] d = 4 -> "4" [] d = 5 -> "5" [] d = 6 -> "6" [] d = 7 -> "7"
      [] d = 8 -> "8" [] OTHER -> "9"

RECURSIVE NatToString(_)
NatToString(k) ==
    IF k < 10 THEN Digit(k) ELSE NatToString(k \div 10) \o Digit(k % 10)

\* Number.prototype.toString of an integer.
NumberToString(k) == IF k < 0 THEN "-" \o NatToString(-k) ELSE NatToString(k)

\* ToString: what a template literal `${v}` and `new Error(v)` apply.
ToString(v) ==
    CASE v.t = "undefined" -> "undefined"
      [] v.t = "null" -> "null"
      [] v.t = "number" -> NumberToString(v.n)
      [] v.t = "string" -> v.s
      [] v.t = "boolean" -> (IF v.n = 1 THEN "true" ELSE "false")
      [] v.t = "object" -> "[object Object]"
      [] v.t = "nan" -> "NaN"
      [] OTHER -> ""

\* new Error(v).message: the empty string when v is undefined.
ErrorMessageOf(v) == IF v.t = "undefined" THEN "" ELSE ToString(v)

(***************************************************************************)
(* Request bodies (req.body).  `present` is FALSE when req.body is         *)
(* undefined; params.present is FALSE when params is undefined;            *)
(* params.hasArgs is FALSE when params.arguments is undefined.             *)
(***************************************************************************)
NoParams == [present |-> FALSE, name |-> Undefined, hasArgs |-> FALSE, query |-> Undefined]

Params(name, hasArgs, query) ==
    [present |-> TRUE, name |-> name, hasArgs |-> hasArgs, query |-> query]

NoBody == [present |-> FALSE, method |-> Undefined, params |-> NoParams, id |-> Undefined]

Body(method, params, id) ==
    [present |-> TRUE, method |-> method, params |-> params, id |-> id]

(***************************************************************************)
(* Response envelopes (the argument of res.json).  JSON.stringify drops a  *)
(* key whose value is undefined: an envelope whose id is Undefined goes    *)
(* out with no id key.                                                     *)
(***************************************************************************)
JsonRpcErrorCode == -32000

NoError == [code |-> 0, message |-> ""]

NoResult ==
    [kind |-> "none", protocolVersion |-> "",
     serverInfo |-> [name |-> "", version |-> ""],
     tools |-> <<>>, content |-> <<>>]

ResultEnvelope(id, result) ==
    [jsonrpc |-> "2.0", id |-> id,
     hasResult |-> TRUE, result |-> result,
     hasError |-> FALSE, error |-> NoError]

ErrorEnvelope(id, message) ==
    [jsonrpc |-> "2.0", id |-> id,
     hasResult |-> FALSE, result |-> NoResult,
     hasError |-> TRUE, error |-> [code |-> JsonRpcErrorCode, message |-> message]]

\* Seeded fault: the handshake answers with the protocol version of another variant.
InitializeResultDrifted ==
    [NoResult EXCEPT !.kind = "initialize",
                     !.protocolVersion = "2025-11-04",
                     !.serverInfo = [name |-> "radiofm-mcp-server", version |-> "1.0.0"]]

\* result of method initialize
InitializeResult ==
    [NoResult EXCEPT !.kind = "initialize",
                     !.protocolVersion = "2024-11-05",
                     !.serverInfo = [name |-> "radiofm-mcp-server", version |-> "1.0.0"]]

SearchTool ==
    [name |-> "search_radio_stations",
     description |-> "Search for radio stations and podcasts worldwide by name, location, language, or genre",
     inputSchema |->
        [type |-> "object",
         properties |-> [query |-> [type |-> "string",
                                    description |-> "Search query (e.g., \"BBC\", \"India\", \"Hindi\", \"Jazz\")"]],
         required |-> <<"query">>]]

\* Seeded fault: the tool is registered by the initialize handshake.
ToolsListResultUninitialized ==
    IF initialized
    THEN [NoResult EXCEPT !.kind = "tools", !.tools = <<SearchTool>>]
    ELSE [NoResult EXCEPT !.kind = "tools"]

\* result of method tools/list
ToolsListResult == [NoResult EXCEPT !.kind = "tools", !.tools = <<SearchTool>>]

\* result of method tools/call: one text item
ContentResult(text) ==
    [NoResult EXCEPT !.kind = "content", !.content = <<[type |-> "text", text |-> text]>>]

(***************************************************************************)
(* Text helpers.  A string the code cuts or parses is held as a sequence   *)
(* of one-character strings.                                               *)
(***************************************************************************)
RECURSIVE Concat(_)
Concat(chars) ==
    IF chars = <<>> THEN ""
    ELSE IF Len(chars) = 1 THEN chars[1]
    ELSE Concat(SubSeq(chars, 1, Len(chars) \div 2))
            \o Concat(SubSeq(chars, Len(chars) \div 2 + 1, Len(chars)))

\* Array.prototype.join
RECURSIVE Join(_, _)
Join(lines, sep) ==
    IF lines = <<>> THEN ""
    ELSE IF Len(lines) = 1 THEN lines[1]
    ELSE lines[1] \o sep \o Join(Tail(lines), sep)

DigitValue(c) ==
    CASE c = "0" -> 0 [] c = "1" -> 1 [] c = "2" -> 2 [] c = "3" -> 3
      [] c = "4" -> 4 [] c = "5" -> 5 [] c = "6" -> 6 [] c = "7" -> 7
      [] c = "8" -> 8 [] c = "9" -> 9 [] OTHER -> -1

RECURSIVE ParseDigits(_, _)
ParseDigits(chars, acc) ==
    IF chars = <<>> \/ DigitValue(Head(chars)) < 0 THEN acc
    ELSE ParseDigits(Tail(chars), 10 * acc + DigitValue(Head(chars)))

\* parseInt(string), radix 10: an optional sign, then the longest run of
\* digits; NaN when there is no digit.  (Leading white space and a 0x prefix
\* are not among the inputs.)
ParseInt(chars) ==
    LET signed == chars # <<>> /\ Head(chars) \in {"-", "+"}
        rest == IF signed THEN Tail(chars) ELSE chars
    IN IF rest = <<>> \/ DigitValue(Head(rest)) < 0 THEN NaN
       ELSE IF signed /\ Head(chars) = "-" THEN Num(-ParseDigits(rest, 0))
       ELSE Num(ParseDigits(rest, 0))

Pad3(k) ==
    IF k < 10 THEN "00" \o NatToString(k)
    ELSE IF k < 100 THEN "0" \o NatToString(k)
    ELSE NatToString(k)

RECURSIVE GroupThousands(_)
GroupThousands(k) ==
    IF k < 1000 THEN NatToString(k)
    ELSE GroupThousands(k \div 1000) \o "," \o Pad3(k % 1000)

\* Number.prototype.toLocaleString() in the en-US locale.
ToLocaleString(v) ==
    IF v.t = "nan" THEN "NaN"
    ELSE IF v.n < 0 THEN "-" \o GroupThousands(-v.n)
    ELSE GroupThousands(v.n)

(***************************************************************************)
(* The upstream reply to GET new_combo_search.php.  kind "ok" is a 2xx     *)
(* response whose body is response.data; the other kinds are the ways      *)
(* axios.get rejects.  hasData is FALSE when the body has no data field,   *)
(* hasResults is FALSE when data.Data is absent.  A group is               *)
(* [type, data]; a station's st_play_cnt, a podcast's total_stream and     *)
(* p_desc are sequences of characters.                                     *)
(***************************************************************************)
Timeout == 15000

DescLimit == 100

\* The message of the error axios.get rejects with.
TransportMessage(kind) ==
    CASE kind = "timeout" -> "timeout of " \o NumberToString(Timeout) \o "ms exceeded"
      [] kind = "network" -> "Network Error"
      [] OTHER -> "Request failed with status code 500"

\* Seeded fault: the Frequency line is also left out when the value is empty
\* or absent.
formatRadioStationSkippingEmpty(station, index) ==
    LET lines == <<NumberToString(index) \o ". " \o station.st_name,
                   "Location: " \o station.st_city \o ", " \o station.st_state
                        \o ", " \o station.country_name_rs,
                   "Language: " \o station.language,
                   "Genre: " \o station.st_genre>>
        freq == IF Truthy(station.st_bc_freq) /\ station.st_bc_freq # Str("~")
                THEN <<"Frequency: " \o ToString(station.st_bc_freq)>>
                ELSE <<>>
        rest == <<"Stream: " \o station.stream_type \o " " \o station.stream_bitrate \o "kbps",
                  "Plays: " \o ToLocaleString(ParseInt(station.st_play_cnt)),
                  "Listen:'https://appradiofm.com/radioplay/' " \o station.st_shorturl>>
    IN Join(lines \o freq \o rest, "\n")

\* formatRadioStation of src/src/index.ts
formatRadioStation(station, index) ==
    LET lines == <<NumberToString(index) \o ". " \o station.st_name,
                   "Location: " \o station.st_city \o ", " \o station.st_state
                        \o ", " \o station.country_name_rs,
                   "Language: " \o station.language,
                   "Genre: " \o station.st_genre>>
        freq == IF station.st_bc_freq # Str("~")
                THEN <<"Frequency: " \o ToString(station.st_bc_freq)>>
                ELSE <<>>
        rest == <<"Stream: " \o station.stream_type \o " " \o station.stream_bitrate \o "kbps",
                  "Plays: " \o ToLocaleString(ParseInt(station.st_play_cnt)),
                  "Listen:'https://appradiofm.com/radioplay/' " \o station.st_shorturl>>
    IN Join(lines \o freq \o rest, "\n")

\* Seeded fault: the description is cut at 150 characters, as the older variant does.
formatPodcastCutAt150(podcast, index) ==
    LET lines == <<NumberToString(index) \o ". " \o podcast.p_name,
                   "Category: " \o podcast.cat_name,
                   "Language: " \o podcast.p_lang>>
        shortDesc == IF Len(podcast.p_desc.chars) > 150
                     THEN Concat(SubSeq(podcast.p_desc.chars, 1, 150)) \o "..."
                     ELSE Concat(podcast.p_desc.chars)
        desc == IF podcast.p_desc.present /\ podcast.p_desc.chars # <<>>
                THEN <<"Description: " \o shortDesc>>
                ELSE <<>>
        rest == <<"Streams: " \o ToLocaleString(ParseInt(podcast.total_stream)),
                  "Listen: " \o podcast.deeplink>>
    IN Join(lines \o desc \o rest, "\n")

\* formatPodcast of src/src/index.ts
formatPodcast(podcast, index) ==
    LET lines == <<NumberToString(index) \o ". " \o podcast.p_name,
                   "Category: " \o podcast.cat_name,
                   "Language: " \o podcast.p_lang>>
        shortDesc == IF Len(podcast.p_desc.chars) > DescLimit
                     THEN Concat(SubSeq(podcast.p_desc.chars, 1, DescLimit)) \o "..."
                     ELSE Concat(podcast.p_desc.chars)
        desc == IF podcast.p_desc.present /\ podcast.p_desc.chars # <<>>
                THEN <<"Description: " \o shortDesc>>
                ELSE <<>>
        rest == <<"Streams: " \o ToLocaleString(ParseInt(podcast.total_stream)),
                  "Listen: " \o podcast.deeplink>>
    IN Join(lines \o desc \o rest, "\n")

\* results.find((r) => r.type === type): the index of the first such group, 0 if none
RECURSIVE FindFrom(_, _, _)
FindFrom(results, type, i) ==
    IF i > Len(results) THEN 0
    ELSE IF results[i].type = type THEN i
    ELSE FindFrom(results, type, i + 1)

\* Seeded fault: the group located is the first one of that type that has items.
FindNonEmpty(results, type) ==
    IF \E i \in 1..Len(results) : results[i].type = type /\ results[i].data # <<>>
    THEN CHOOSE i \in 1..Len(results) :
            /\ results[i].type = type /\ results[i].data # <<>>
            /\ \A j \in 1..(i - 1) : ~(results[j].type = type /\ results[j].data # <<>>)
    ELSE 0

Find(results, type) == FindFrom(results, type, 1)

\* Seeded fault: the stations are numbered by their array index, from 0.
MapStationsFromZero(stations) ==
    [i \in 1..Len(stations) |-> formatRadioStation(stations[i], i - 1)]

\* stations.map((station, index) => formatRadioStation(station, index + 1))
MapStations(stations) ==
    [i \in 1..Len(stations) |-> formatRadioStation(stations[i], i)]

NoResultsText(query) ==
    "(U+1F50D) No results found for \"" \o ToString(query)
        \o "\"\n\nTry searching with:\n- Station name (e.g., \"BBC\", \"NPR\")"
        \o "\n- Country (e.g., \"UK\", \"USA\", \"India\")"
        \o "\n- Language (e.g., \"English\", \"Spanish\")"
        \o "\n- Genre (e.g., \"Jazz\", \"News\", \"Rock\")"

\* The sections array of the tools/call branch and its join.
RadioSection(results) ==
    LET r == Find(results, "radio")
    IN IF r # 0 /\ Len(results[r].data) > 0
       THEN <<"\nRADIO STATIONS (" \o NumberToString(Len(results[r].data)) \o ")">>
                \o MapStations(results[r].data)
       ELSE <<>>

\* Seeded fault: the call-to-action line is pushed before the station block.
ResultTextCallToActionEarly(query, results) ==
    Join(<<"Search Results for \"" \o ToString(query) \o "\"">>
            \o <<"\nTap on any \"Listen\" link to play on radiofm.co">>
            \o RadioSection(results), "\n")

ResultText(query, results) ==
    Join(<<"Search Results for \"" \o ToString(query) \o "\"">>
            \o RadioSection(results)
            \o <<"\nTap on any \"Listen\" link to play on radiofm.co">>,
         "\n")

(***************************************************************************)
(* The handler of src/src/index.ts.  What a stretch of it ends with:       *)
(* res.json(env), a thrown error, or the await of axios.get.               *)
(***************************************************************************)
Done(sent) == [kind |-> "done", sent |-> sent, message |-> "", query |-> Undefined]

\* return res.json(env)
Json(env) == Done(<<env>>)

Throw(message) == [kind |-> "throw", sent |-> <<>>, message |-> message, query |-> Undefined]

Await(query) == [kind |-> "await", sent |-> <<>>, message |-> "", query |-> query]

\* Seeded fault: the query check tests only for undefined.
QueryMissingUndefinedOnly(query) == query = Undefined

\* The query check of the tools/call branch: `!query` throws.
\* Seeded fault: the query check is gone.
QueryMissingNever(query) == FALSE

QueryMissing(query) == ~Truthy(query)

\* Seeded fault: the name check accepts any string.
IsSearchToolAnyString(name) == name.t = "string"

\* name === 'search_radio_stations'
IsSearchTool(name) == name = Str("search_radio_stations")

UnknownToolMessage(name) == "Unknown tool: " \o ToString(name)

\* Seeded fault: the message takes the method as a string without converting it.
UnknownMethodMessageRaw(method) == "Unknown method: " \o method.s

UnknownMethodMessage(method) == "Unknown method: " \o ToString(method)

\* The try block, from its first line to the await (or to its end).
TryBlock(body) ==
    IF ~body.present
    THEN Throw("Cannot destructure property 'method' of 'req.body' as it is undefined.")
    ELSE IF body.method = Str("initialize")
    THEN Json(ResultEnvelope(body.id, InitializeResult))
    ELSE IF body.method = Str("tools/list")
    THEN Json(ResultEnvelope(body.id, ToolsListResult))
    ELSE IF body.method = Str("tools/call")
    THEN IF ~body.params.present
         THEN Throw("Cannot destructure property 'name' of 'params' as it is undefined.")
         ELSE IF IsSearchTool(body.params.name)
         THEN LET query == IF body.params.hasArgs THEN body.params.query ELSE Undefined
              IN IF QueryMissing(query)
                 THEN Throw("Search query is required")
                 ELSE Await(query)
         ELSE Throw(UnknownToolMessage(body.params.name))
    ELSE Throw(UnknownMethodMessage(body.method))

\* Seeded fault: the error code is compared with `!=`, which takes "0" for 0.
UpstreamFailedLoosely(reply) == reply.ErrorCode \notin {Num(0), Str("0")}

\* The check of the upstream body's nested error code.
UpstreamFailed(reply) == reply.ErrorCode # Num(0)

\* Seeded fault: only an empty list counts as no results.
NoResultsEmptyOnly(reply) == reply.hasResults /\ Len(reply.Data) = 0

\* `!results || results.length === 0`
NoResults(reply) == ~reply.hasResults \/ Len(reply.Data) = 0

\* Seeded fault: a failed upstream call is issued again.
AfterAwaitRetrying(body, query, reply) ==
    IF reply.kind # "ok"
    THEN Await(query)
    ELSE IF ~reply.hasData
    THEN Throw("Cannot read properties of undefined (reading 'ErrorCode')")
    ELSE IF UpstreamFailed(reply)
    THEN Throw(ErrorMessageOf(reply.ErrorMessage))
    ELSE IF NoResults(reply)
    THEN Json(ResultEnvelope(body.id, ContentResult(NoResultsText(query))))
    ELSE Json(ResultEnvelope(body.id, ContentResult(ResultText(query, reply.Data))))

\* The try block after the await.
AfterAwait(body, query, reply) ==
    IF reply.kind # "ok"
    THEN Throw(TransportMessage(reply.kind))
    ELSE IF ~reply.hasData
    THEN Throw("Cannot read properties of undefined (reading 'ErrorCode')")
    ELSE IF UpstreamFailed(reply)
    THEN Throw(ErrorMessageOf(reply.ErrorMessage))
    ELSE IF NoResults(reply)
    THEN Json(ResultEnvelope(body.id, ContentResult(NoResultsText(query))))
    ELSE Json(ResultEnvelope(body.id, ContentResult(ResultText(query, reply.Data))))

\* Seeded fault: the catch block always reports the generic message.
CatchMessageGeneric(message) == "Internal server error"

\* error.message || 'Internal server error'
CatchMessage(message) == IF message # "" THEN message ELSE "Internal server error"

\* Seeded fault: the catch block throws the error again instead of answering.
CatchBlockRethrowing(body, thrown) == thrown

\* The catch block: req.body.id throws when req.body is undefined, and that
\* error leaves the handler.
CatchBlock(body, thrown) ==
    IF ~body.present
    THEN [thrown EXCEPT !.message = "Cannot read properties of undefined (reading 'id')"]
    ELSE Done(thrown.sent \o <<ErrorEnvelope(body.id, CatchMessage(thrown.message))>>)

\* A stretch of the try block under the catch.
Guarded(body, outcome) ==
    IF outcome.kind = "throw" THEN CatchBlock(body, outcome) ELSE outcome

(***************************************************************************)
(* Inputs: the request bodies and upstream replies the actions draw from.  *)
(***************************************************************************)
MaxInFlight == 2

Slots == 1..MaxInFlight

Ids == {Undefined, Num(0), Str(""), Num(7)}

Methods == {Undefined, Str("initialize"), Str("tools/list"), Str("tools/call"), Str("ping")}

Queries ==
    {Undefined, Null, Str(""), Str("jazz"), Num(0), Num(5), Bool(FALSE), Bool(TRUE), Obj}

SearchName == Str("search_radio_stations")

RequestBodies ==
    {NoBody}
    \cup {Body(m, NoParams, i) : m \in Methods, i \in Ids}
    \cup {Body(m, Params(SearchName, TRUE, Str("jazz")), Num(7)) : m \in Methods}
    \cup {Body(Str("tools/call"), Params(n, a, q), Num(7)) :
            n \in {Undefined, Str("other")}, a \in BOOLEAN, q \in {Undefined, Str(""), Str("jazz")}}
    \cup {Body(Str("tools/call"), Params(SearchName, FALSE, Undefined), i) : i \in Ids}
    \cup {Body(Str("tools/call"), Params(SearchName, TRUE, q), Num(7)) : q \in Queries}
    \cup {Body(Str("tools/call"), Params(SearchName, TRUE, Str("")), i) : i \in Ids}
    \cup {Body(Str("tools/call"), Params(SearchName, TRUE, Str("jazz")), Num(0))}

Chars(k) == [i \in 1..k |-> "x"]

Station1 ==
    [st_name |-> "BBC Radio 1", st_city |-> "London", st_state |-> "England",
     country_name_rs |-> "United Kingdom", language |-> "English", st_genre |-> "Pop",
     st_bc_freq |-> Str("~"), stream_type |-> "mp3", stream_bitrate |-> "128",
     st_play_cnt |-> <<"1", "2", "3", "4", "5", "6", "7">>, st_shorturl |-> "bbc1"]

Station2 ==
    [st_name |-> "Jazz FM", st_city |-> "Mumbai", st_state |-> "Maharashtra",
     country_name_rs |-> "India", language |-> "Hindi", st_genre |-> "Jazz",
     st_bc_freq |-> Str("98.3"), stream_type |-> "aac", stream_bitrate |-> "64",
     st_play_cnt |-> <<"4", "2">>, st_shorturl |-> "jazzfm"]

Podcast1 ==
    [p_name |-> "Jazz Hour", cat_name |-> "Music", p_lang |-> "English",
     p_desc |-> [present |-> TRUE, chars |-> Chars(DescLimit + 1)],
     total_stream |-> <<"1", "0", "0", "0">>, deeplink |-> "https://radiofm.co/p/1"]

Podcast2 ==
    [p_name |-> "News Daily", cat_name |-> "News", p_lang |-> "Hindi",
     p_desc |-> [present |-> FALSE, chars |-> <<>>],
     total_stream |-> <<"~">>, deeplink |-> "https://radiofm.co/p/2"]

Group(type, data) == [type |-> type, data |-> data]

DataLists ==
    {<<Group("radio", <<Station1, Station2>>)>>,
     <<Group("radio", <<>>)>>,
     <<Group("podcast", <<Podcast1>>)>>,
     <<Group("radio", <<Station2>>), Group("podcast", <<Podcast1, Podcast2>>)>>,
     <<Group("radio", <<>>), Group("radio", <<Station1>>)>>,
     <<Group("radio", <<Station2, Station1, Station2>>)>>}

NoReply ==
    [kind |-> "none", hasData |-> FALSE, ErrorCode |-> Undefined,
     ErrorMessage |-> Undefined, hasResults |-> FALSE, Data |-> <<>>]

Rejected(kind) == [NoReply EXCEPT !.kind = kind]

Replied(code, message, hasResults, data) ==
    [kind |-> "ok", hasData |-> TRUE, ErrorCode |-> code,
     ErrorMessage |-> message, hasResults |-> hasResults, Data |-> data]

UpstreamReplies ==
    {Rejected(k) : k \in {"timeout", "network", "status"}}
    \cup {[NoReply EXCEPT !.kind = "ok"]}
    \cup {Replied(Num(7), m, FALSE, <<>>) : m \in {Undefined, Str(""), Str("rate limited")}}
    \cup {Replied(c, Str("rate limited"), FALSE, <<>>) : c \in {Undefined, Str("0")}}
    \cup {Replied(Undefined, Undefined, FALSE, <<>>),
          Replied(Str("0"), Str(""), TRUE, <<Group("radio", <<Station1, Station2>>)>>)}
    \cup {Replied(Num(0), Str(""), FALSE, <<>>), Replied(Num(0), Str(""), TRUE, <<>>)}
    \cup {Replied(Num(0), Str(""), TRUE, d) : d \in DataLists}

(***************************************************************************)
(* State.                                                                  *)
(***************************************************************************)
FreeSlot == [busy |-> FALSE, body |-> NoBody, query |-> Undefined, gets |-> <<>>]

NoExchange ==
    [valid |-> FALSE, body |-> NoBody, awaited |-> FALSE, query |-> Undefined,
     reply |-> NoReply, responses |-> <<>>, gets |-> <<>>, escaped |-> FALSE]

\* The exchange of a request whose handler ended with `outcome`.
Finished(body, awaited, query, reply, gets, outcome) ==
    [valid |-> TRUE, body |-> body, awaited |-> awaited, query |-> query,
     reply |-> reply, responses |-> outcome.sent, gets |-> gets,
     escaped |-> outcome.kind = "throw"]

\* An error that leaves the async handler is an unhandled rejection: the
\* process ends or goes on, by the Node version and its flags.
AfterHandler(outcome) == IF outcome.kind = "throw" THEN BOOLEAN ELSE {TRUE}

\* No formatter call made yet.
NoFormat == [kind |-> "none", station |-> Station1, podcast |-> Podcast1, index |-> 0, text |-> ""]

Init ==
    /\ alive = TRUE
    /\ inflight = [s \in Slots |-> FreeSlot]
    /\ exchange = NoExchange
    /\ initialized = FALSE
    /\ formatted = NoFormat

\* Seeded fault: method, params, id and query are kept in variables shared by
\* all invocations of the handler.
LocalsShared(slot) == inflight[CHOOSE s \in Slots : inflight[s].busy]

\* The handler's own req, method, params, id and query: constants of one
\* invocation, seen again after the await.
Locals(slot) == inflight[slot]

\* The history variable after `body` was handled.
Handled(body) == initialized \/ (body.present /\ body.method = Str("initialize"))

\* A POST /mcp arrives on a free connection slot (MaxInFlight bounds the
\* requests being handled at once): the handler runs to its end or to the await.
Post(slot, body) ==
    /\ alive
    /\ ~inflight[slot].busy
    /\ LET outcome == Guarded(body, TryBlock(body))
       IN IF outcome.kind = "await"
          THEN /\ inflight' = [inflight EXCEPT ![slot] =
                                  [busy |-> TRUE, body |-> body, query |-> outcome.query,
                                   gets |-> <<outcome.query>>]]
               /\ UNCHANGED <<alive, exchange, initialized, formatted>>
          ELSE /\ exchange' = Finished(body, FALSE, Undefined, NoReply, <<>>, outcome)
               /\ alive' \in AfterHandler(outcome)
               /\ initialized' = Handled(body)
               /\ UNCHANGED <<inflight, formatted>>

\* axios.get settles: the handler resumes after the await and runs to its end
\* (or to another await, which this handler never reaches).  The exchange is
\* that of the request of this slot, answered with what the handler wrote.
UpstreamSettles(slot, reply) ==
    /\ alive
    /\ inflight[slot].busy
    /\ LET r == Locals(slot)
           outcome == Guarded(r.body, AfterAwait(r.body, r.query, reply))
       IN IF outcome.kind = "await"
          THEN /\ inflight' = [inflight EXCEPT ![slot].gets = @ \o <<outcome.query>>]
               /\ UNCHANGED <<alive, exchange, initialized, formatted>>
          ELSE /\ exchange' = Finished(inflight[slot].body, TRUE, inflight[slot].query,
                                       reply, inflight[slot].gets, outcome)
               /\ alive' \in AfterHandler(outcome)
               /\ inflight' = [inflight EXCEPT ![slot] = FreeSlot]
               /\ UNCHANGED <<initialized, formatted>>

Next ==
    \/ \E slot \in Slots, body \in RequestBodies : Post(slot, body)
    \/ \E slot \in Slots, reply \in UpstreamReplies : UpstreamSettles(slot, reply)

Spec == Init /\ [][Next]_vars

(***************************************************************************)
(* The latest variant of the handler: src/dist/index.js, lines 335-453,    *)
(* with the formatRadioStation of lines 220-237 (formatPodcast there is    *)
(* that of src/src/index.ts).                                              *)
(***************************************************************************)
formatRadioStationDist(station, index) ==
    LET lines == <<NumberToString(index) \o ". " \o station.st_name,
                   "Location: " \o station.st_city \o ", " \o station.st_state
                        \o ", " \o station.country_name_rs,
                   "Language: " \o station.language,
                   "Genre: " \o station.st_genre>>
        freq == IF station.st_bc_freq # Str("~")
                THEN <<"Frequency: " \o ToString(station.st_bc_freq)>>
                ELSE <<>>
        rest == <<"Stream: " \o station.stream_type \o " " \o station.stream_bitrate \o "kbps",
                  "Plays: " \o ToLocaleString(ParseInt(station.st_play_cnt)),
                  "Listen: https://appradiofm.com/radioplay/" \o station.st_shorturl>>
    IN Join(lines \o freq \o rest, "\n")

InitializeResultDist ==
    [NoResult EXCEPT !.kind = "initialize",
                     !.protocolVersion = "2025-11-04",
                     !.serverInfo = [name |-> "radiofm-mcp-server", version |-> "1.0.1"]]

\* (the description's dash is written U+2014 here)
SearchToolDist ==
    [SearchTool EXCEPT !.description =
        "Search and explore live radio stations and podcasts from around the world using the Radio FM app within ChatGPT. "
        \o "Discover trending music, news, and cultural broadcasts across languages, genres, and countries (U+2014) "
        \o "all seamlessly accessible without sign-in."]

ToolsListResultDist == [NoResult EXCEPT !.kind = "tools", !.tools = <<SearchToolDist>>]

NoResultsTextDist(query) ==
    "(U+1F50D) No results found for \"" \o ToString(query)
        \o "\". Try station name, country, language, or genre."

RadioSectionDist(results) ==
    LET r == Find(results, "radio")
    IN IF r # 0 /\ Len(results[r].data) > 0
       THEN <<"\nRADIO STATIONS (" \o NumberToString(Len(results[r].data)) \o ")">>
                \o [i \in 1..Len(results[r].data) |->
                        formatRadioStationDist(results[r].data[i], i)]
       ELSE <<>>

PodcastSectionDist(results) ==
    LET p == Find(results, "podcast")
    IN IF p # 0 /\ Len(results[p].data) > 0
       THEN <<"\nPODCASTS (" \o NumberToString(Len(results[p].data)) \o ")">>
                \o [i \in 1..Len(results[p].data) |-> formatPodcast(results[p].data[i], i)]
       ELSE <<>>

ResultTextDist(query, results) ==
    Join(<<"Search Results for \"" \o ToString(query) \o "\"">>
            \o RadioSectionDist(results)
            \o PodcastSectionDist(results)
            \o <<"\nTap on any 'Listen' link to play on RadioFM.">>,
         "\n")

TryBlockDist(body) ==
    IF ~body.present
    THEN Throw("Cannot destructure property 'method' of 'req.body' as it is undefined.")
    ELSE IF body.method = Str("initialize")
    THEN Json(ResultEnvelope(body.id, InitializeResultDist))
    ELSE IF body.method = Str("tools/list")
    THEN Json(ResultEnvelope(body.id, ToolsListResultDist))
    ELSE IF body.method = Str("tools/call")
    THEN IF ~body.params.present
         THEN Throw("Cannot destructure property 'name' of 'params' as it is undefined.")
         ELSE IF body.params.name # Str("search_radio_stations")
         THEN Throw("Unknown tool: " \o ToString(body.params.name))
         ELSE LET query == IF body.params.hasArgs THEN body.params.query ELSE Undefined
              IN IF ~Truthy(query)
                 THEN Throw("Search query is required")
                 ELSE Await(query)
    ELSE Throw("Unknown method: " \o ToString(body.method))

AfterAwaitDist(body, query, reply) ==
    IF reply.kind # "ok"
    THEN Throw(TransportMessage(reply.kind))
    ELSE IF ~reply.hasData
    THEN Throw("Cannot read properties of undefined (reading 'ErrorCode')")
    ELSE IF reply.ErrorCode # Num(0)
    THEN Throw(ErrorMessageOf(reply.ErrorMessage))
    ELSE IF ~reply.hasResults \/ Len(reply.Data) = 0
    THEN Json(ResultEnvelope(body.id, ContentResult(NoResultsTextDist(query))))
    ELSE Json(ResultEnvelope(body.id, ContentResult(ResultTextDist(query, reply.Data))))

\* req.body?.id || null
CatchIdDist(body) == IF body.present /\ Truthy(body.id) THEN body.id ELSE Null

CatchBlockDist(body, thrown) ==
    Done(thrown.sent \o <<ErrorEnvelope(CatchIdDist(body), CatchMessage(thrown.message))>>)

GuardedDist(body, outcome) ==
    IF outcome.kind = "throw" THEN CatchBlockDist(body, outcome) ELSE outcome

PostDist(slot, body) ==
    /\ alive
    /\ ~inflight[slot].busy
    /\ LET outcome == GuardedDist(body, TryBlockDist(body))
       IN IF outcome.kind = "await"
          THEN /\ inflight' = [inflight EXCEPT ![slot] =
                                  [busy |-> TRUE, body |-> body, query |-> outcome.query,
                                   gets |-> <<outcome.query>>]]
               /\ UNCHANGED <<alive, exchange, initialized, formatted>>
          ELSE /\ exchange' = Finished(body, FALSE, Undefined, NoReply, <<>>, outcome)
               /\ alive' \in AfterHandler(outcome)
               /\ initialized' = Handled(body)
               /\ UNCHANGED <<inflight, formatted>>

UpstreamSettlesDist(slot, reply) ==
    /\ alive
    /\ inflight[slot].busy
    /\ LET r == inflight[slot]
           outcome == GuardedDist(r.body, AfterAwaitDist(r.body, r.query, reply))
       IN /\ exchange' = Finished(r.body, TRUE, r.query, reply, r.gets, outcome)
          /\ alive' \in AfterHandler(outcome)
          /\ inflight' = [inflight EXCEPT ![slot] = FreeSlot]
          /\ UNCHANGED <<initialized, formatted>>

NextDist ==
    \/ \E slot \in Slots, body \in RequestBodies : PostDist(slot, body)
    \/ \E slot \in Slots, reply \in UpstreamReplies : UpstreamSettlesDist(slot, reply)

SpecDist == Init /\ [][NextDist]_vars

(***************************************************************************)
(* The two formatters on their own: each action is one call, with a        *)
(* station or podcast and a 1-based index drawn from the sets below.       *)
(***************************************************************************)
MaxIndex == 4

Indexes == 1..MaxIndex

\* k characters that differ by position: "1234567890123..."
DescChars(k) == [i \in 1..k |-> Digit(i % 10)]

Frequencies == {Str("~"), Str("98.3"), Str("FM 101"), Str(""), Undefined}

PlayCounts == {<<"1", "2", "3", "4", "5", "6", "7">>, <<"4", "2">>, <<"~">>}

StationInputs ==
    {[Station2 EXCEPT !.st_bc_freq = f, !.st_play_cnt = c] : f \in Frequencies, c \in PlayCounts}

DescLengths == {0, 1, DescLimit - 1, DescLimit, DescLimit + 1, DescLimit + 50}

Descriptions ==
    {[present |-> FALSE, chars |-> <<>>]}
    \cup {[present |-> TRUE, chars |-> DescChars(k)] : k \in DescLengths}

PodcastInputs ==
    {[Podcast2 EXCEPT !.p_desc = d, !.total_stream = t] :
        d \in Descriptions, t \in {<<"1", "0", "0", "0">>, <<"~">>}}

\* formatRadioStation(station, index) is called.
FormatStation(station, index) ==
    /\ formatted' = [kind |-> "station", station |-> station, podcast |-> Podcast1,
                     index |-> index, text |-> formatRadioStation(station, index)]
    /\ UNCHANGED <<alive, inflight, exchange, initialized>>

\* formatPodcast(podcast, index) is called.
FormatPodcast(podcast, index) ==
    /\ formatted' = [kind |-> "podcast", station |-> Station1, podcast |-> podcast,
                     index |-> index, text |-> formatPodcast(podcast, index)]
    /\ UNCHANGED <<alive, inflight, exchange, initialized>>

NextFormat ==
    \/ \E station \in StationInputs, index \in Indexes : FormatStation(station, index)
    \/ \E podcast \in PodcastInputs, index \in Indexes : FormatPodcast(podcast, index)

SpecFormat == Init /\ [][NextFormat]_vars

(***************************************************************************)
(* Properties.                                                             *)
(***************************************************************************)
KnownMethods == {Str("initialize"), Str("tools/list"), Str("tools/call")}

IsToolsCall(body) == body.present /\ body.method = Str("tools/call")

\* The one response of the finished exchange is an error envelope with this message.
AnswersError(message) ==
    /\ Len(exchange.responses) = 1
    /\ exchange.responses[1].jsonrpc = "2.0"
    /\ exchange.responses[1].hasError
    /\ ~exchange.responses[1].hasResult
    /\ exchange.responses[1].error.code = -32000
    /\ exchange.responses[1].error.message = message

\* The one response of the finished exchange is an error envelope with code -32000.
AnswersSomeError ==
    /\ Len(exchange.responses) = 1
    /\ exchange.responses[1].hasError
    /\ ~exchange.responses[1].hasResult
    /\ exchange.responses[1].error.code = -32000

\* C1: every finished POST /mcp exchange has exactly one response envelope,
\* with jsonrpc "2.0" and either a result or an error, never both, never neither.
C1_ExactlyOneEnvelope ==
    exchange.valid =>
        /\ Len(exchange.responses) = 1
        /\ exchange.responses[1].jsonrpc = "2.0"
        /\ exchange.responses[1].hasResult # exchange.responses[1].hasError

\* A request the handler cannot serve: no body, tools/call without params,
\* or a method it does not support.
Unservable(body) ==
    \/ ~body.present
    \/ body.method \notin KnownMethods
    \/ body.method = Str("tools/call") /\ ~body.params.present

\* C2: no exception leaves the handler and the process stays up; a request with
\* no body, a tools/call without params and an unsupported method each end
\* with an error envelope with code -32000.
C2_FailuresBecomeErrorEnvelopes ==
    /\ alive
    /\ exchange.valid => ~exchange.escaped
    /\ exchange.valid /\ Unservable(exchange.body) => AnswersSomeError

\* arguments.query is missing or is the empty string
QueryAbsentOrEmpty(params) ==
    \/ ~params.hasArgs
    \/ params.query = Undefined
    \/ params.query = Str("")

\* C3 as stated: a tools/call whose arguments.query is missing or empty ends with
\* the error "Search query is required", whatever params.name is.
C3_MissingQueryAnyName ==
    exchange.valid /\ IsToolsCall(exchange.body) /\ exchange.body.params.present
            /\ QueryAbsentOrEmpty(exchange.body.params)
        => AnswersError("Search query is required")

\* C3 amended: a tools/call whose params.name is search_radio_stations and whose
\* arguments.query is missing or empty ends with the error envelope with code
\* -32000 and message "Search query is required", and is never left awaiting.
C3_MissingQuerySearchTool ==
    /\ exchange.valid /\ IsToolsCall(exchange.body) /\ exchange.body.params.present
            /\ exchange.body.params.name = SearchName
            /\ QueryAbsentOrEmpty(exchange.body.params)
        => AnswersError("Search query is required") /\ ~exchange.awaited
    /\ \A slot \in Slots :
        inflight[slot].busy /\ inflight[slot].body.params.name = SearchName
            => ~QueryAbsentOrEmpty(inflight[slot].body.params)

C3_Witness ==
    /\ exchange.valid /\ IsToolsCall(exchange.body)
    /\ exchange.body.params.name = SearchName
    /\ exchange.body.params.hasArgs /\ exchange.body.params.query = Str("")
    /\ AnswersError("Search query is required")

NonEmptyString(v) == v.t = "string" /\ v.s # ""

\* C4: a tools/call for search_radio_stations reaches the upstream call only with
\* a query that is a non-empty string; with any other query it ends with the
\* missing-query error and no upstream call.
C4_OnlyNonEmptyStringQueries ==
    /\ \A slot \in Slots :
        inflight[slot].busy => NonEmptyString(inflight[slot].body.params.query)
    /\ exchange.valid /\ IsToolsCall(exchange.body) /\ exchange.body.params.present
            /\ exchange.body.params.name = SearchName
            /\ ~(exchange.body.params.hasArgs /\ NonEmptyString(exchange.body.params.query))
        => AnswersError("Search query is required") /\ exchange.gets = <<>>

\* C5: a tools/call whose params carries a name other than search_radio_stations
\* (or no name) ends with the error envelope with code -32000 and message
\* "Unknown tool: <name>", and no upstream GET is issued for it.
C5_UnknownTool ==
    /\ exchange.valid /\ IsToolsCall(exchange.body) /\ exchange.body.params.present
            /\ exchange.body.params.name # SearchName
        => /\ AnswersError("Unknown tool: " \o ToString(exchange.body.params.name))
           /\ exchange.gets = <<>>
           /\ ~exchange.awaited
    /\ \A slot \in Slots :
        inflight[slot].busy => inflight[slot].body.params.name = SearchName

C5_Witness ==
    /\ exchange.valid /\ IsToolsCall(exchange.body)
    /\ exchange.body.params.name = Str("other")
    /\ exchange.body.params.hasArgs /\ exchange.body.params.query = Str("jazz")
    /\ AnswersError("Unknown tool: other")
    /\ exchange.gets = <<>>

\* C6: a request body whose method is none of initialize, tools/list, tools/call
\* (an absent method included) ends with the error envelope with code -32000
\* and message "Unknown method: <method>".
C6_UnknownMethod ==
    exchange.valid /\ exchange.body.present /\ exchange.body.method \notin KnownMethods
        => AnswersError("Unknown method: " \o ToString(exchange.body.method))

C6_Witness ==
    /\ exchange.valid /\ exchange.body.present
    /\ exchange.body.method = Undefined
    /\ AnswersError("Unknown method: undefined")

\* Every response of the finished exchange carries the request's id.
IdEchoed ==
    \A i \in 1..Len(exchange.responses) : exchange.responses[i].id = exchange.body.id

\* C7: every response envelope, result or error, carries the id of the request
\* unchanged, falsy ids such as 0 and "" included (here for a request that
\* carries an id, under the latest handler variant).
C7_IdEchoedLatestVariant ==
    exchange.valid /\ exchange.body.present /\ exchange.body.id # Undefined => IdEchoed

\* The same for the handler of src/src/index.ts, for every request with a body.
C7_IdEchoedSrc == exchange.valid /\ exchange.body.present => IdEchoed

\* C8: the result of initialize is the fixed protocol version and server
\* identity, and the result of tools/list is the one tool search_radio_stations
\* whose input schema has the single required string property query, whatever
\* the params and whatever was served before.
C8_FixedResults ==
    /\ exchange.valid /\ exchange.body.present /\ exchange.body.method = Str("initialize")
        => /\ Len(exchange.responses) = 1
           /\ exchange.responses[1].hasResult /\ ~exchange.responses[1].hasError
           /\ exchange.responses[1].result.protocolVersion = "2024-11-05"
           /\ exchange.responses[1].result.serverInfo
                = [name |-> "radiofm-mcp-server", version |-> "1.0.0"]
    /\ exchange.valid /\ exchange.body.present /\ exchange.body.method = Str("tools/list")
        => /\ Len(exchange.responses) = 1
           /\ exchange.responses[1].hasResult /\ ~exchange.responses[1].hasError
           /\ Len(exchange.responses[1].result.tools) = 1
           /\ LET tool == exchange.responses[1].result.tools[1]
              IN /\ tool.name = "search_radio_stations"
                 /\ DOMAIN tool.inputSchema.properties = {"query"}
                 /\ tool.inputSchema.properties.query.type = "string"
                 /\ tool.inputSchema.required = <<"query">>

C8_Witness ==
    /\ exchange.valid /\ exchange.body.method = Str("initialize")
    /\ exchange.body.params.present
    /\ exchange.responses[1].result.protocolVersion = "2024-11-05"
    /\ \E slot \in Slots : inflight[slot].busy

\* The upstream body came back with a numeric ErrorCode other than 0.
UpstreamErrorCode ==
    /\ exchange.valid /\ exchange.awaited
    /\ exchange.reply.kind = "ok" /\ exchange.reply.hasData
    /\ exchange.reply.ErrorCode.t = "number" /\ exchange.reply.ErrorCode.n # 0

\* C9 as stated: with a non-zero upstream ErrorCode the error message is the
\* upstream ErrorMessage verbatim, an empty or absent one included.
C9_UpstreamMessageVerbatimAlways ==
    UpstreamErrorCode
        => AnswersError(IF exchange.reply.ErrorMessage.t = "string"
                        THEN exchange.reply.ErrorMessage.s ELSE "")

\* C9 amended: with a non-zero upstream ErrorCode the response is the error
\* envelope with code -32000 whose message is the upstream ErrorMessage
\* verbatim when that is a non-empty string, and "Internal server error" when
\* it is empty or absent.
C9_UpstreamMessageOrFallback ==
    UpstreamErrorCode
        => AnswersError(IF NonEmptyString(exchange.reply.ErrorMessage)
                        THEN exchange.reply.ErrorMessage.s
                        ELSE "Internal server error")

C9_Witness ==
    /\ UpstreamErrorCode
    /\ exchange.reply.ErrorCode = Num(7)
    /\ exchange.reply.ErrorMessage = Str("rate limited")
    /\ AnswersError("rate limited")

\* C10: a tools/call with a non-empty string query whose upstream reply has
\* ErrorCode 0 and an empty or absent Data list ends with a result envelope
\* whose single text item is the no-results message naming the query.
C10_NoResultsMessage ==
    exchange.valid /\ exchange.awaited /\ NonEmptyString(exchange.body.params.query)
            /\ exchange.reply.kind = "ok" /\ exchange.reply.hasData
            /\ exchange.reply.ErrorCode = Num(0)
            /\ (~exchange.reply.hasResults \/ exchange.reply.Data = <<>>)
        => /\ Len(exchange.responses) = 1
           /\ exchange.responses[1].hasResult /\ ~exchange.responses[1].hasError
           /\ exchange.responses[1].result.content
                = <<[type |-> "text",
                     text |-> "(U+1F50D) No results found for \""
                        \o exchange.body.params.query.s
                        \o "\"\n\nTry searching with:\n- Station name (e.g., \"BBC\", \"NPR\")\n- Country (e.g., \"UK\", \"USA\", \"India\")\n- Language (e.g., \"English\", \"Spanish\")\n- Genre (e.g., \"Jazz\", \"News\", \"Rock\")"]>>

C10_Witness ==
    /\ exchange.valid /\ exchange.awaited
    /\ exchange.body.params.query = Str("jazz")
    /\ exchange.reply.ErrorCode = Num(0) /\ ~exchange.reply.hasResults
    /\ Len(exchange.responses) = 1 /\ exchange.responses[1].hasResult

(***************************************************************************)
(* The response text, line by line.  The expected texts below are spelled  *)
(* as the lines a reader of the response sees; "" is a blank line.         *)
(***************************************************************************)
\* The upstream reply is one the tools/call branch renders result groups from.
RendersResults(reply) ==
    /\ reply.kind = "ok"
    /\ reply.hasData
    /\ reply.ErrorCode = Num(0)
    /\ reply.hasResults
    /\ Len(reply.Data) > 0

HeaderLine(query) == "Search Results for \"" \o ToString(query) \o "\""

CallToActionLine == "Tap on any \"Listen\" link to play on radiofm.co"

\* The lines of the entry of `station` under number `index`.
StationLines(station, index) ==
    <<NumberToString(index) \o ". " \o station.st_name,
      "Location: " \o station.st_city \o ", " \o station.st_state \o ", "
          \o station.country_name_rs,
      "Language: " \o station.language,
      "Genre: " \o station.st_genre>>
    \o (IF station.st_bc_freq = Str("~") THEN <<>>
        ELSE <<"Frequency: " \o ToString(station.st_bc_freq)>>)
    \o <<"Stream: " \o station.stream_type \o " " \o station.stream_bitrate \o "kbps",
         "Plays: " \o ToLocaleString(ParseInt(station.st_play_cnt)),
         "Listen:'https://appradiofm.com/radioplay/' " \o station.st_shorturl>>

\* The lines of the entries of stations[from..], numbered from `from`.
RECURSIVE StationBlockLines(_, _)
StationBlockLines(stations, from) ==
    IF from > Len(stations) THEN <<>>
    ELSE StationLines(stations[from], from) \o StationBlockLines(stations, from + 1)

\* The finished exchange answered with one result envelope holding one text
\* item made of these lines.
AnswersLines(lines) ==
    /\ Len(exchange.responses) = 1
    /\ exchange.responses[1].hasResult
    /\ ~exchange.responses[1].hasError
    /\ exchange.responses[1].result.content = <<[type |-> "text", text |-> Join(lines, "\n")]>>

\* The items of the first group tagged `type`: <<>> if there is none.
FoundData(results, type) ==
    IF \E i \in 1..Len(results) : results[i].type = type
    THEN results[CHOOSE i \in 1..Len(results) :
                    /\ results[i].type = type
                    /\ \A j \in 1..(i - 1) : results[j].type # type].data
    ELSE <<>>

FoundStations(results) == FoundData(results, "radio")

FoundPodcasts(results) == FoundData(results, "podcast")

\* C11: when the group tagged "radio" that the handler locates (the first one)
\* holds n >= 1 stations, the text is the header line, a blank line, the line
\* "RADIO STATIONS (n)", the n station entries numbered 1..n in upstream order,
\* a blank line and the call-to-action line, and nothing else: no podcast section.
C11_RadioBlock ==
    (/\ exchange.valid
     /\ exchange.awaited
     /\ RendersResults(exchange.reply)
     /\ Len(FoundStations(exchange.reply.Data)) >= 1)
    => AnswersLines(<<HeaderLine(exchange.query), "",
                      "RADIO STATIONS ("
                          \o NumberToString(Len(FoundStations(exchange.reply.Data))) \o ")">>
                    \o StationBlockLines(FoundStations(exchange.reply.Data), 1)
                    \o <<"", CallToActionLine>>)

C11_Witness ==
    /\ exchange.valid
    /\ exchange.awaited
    /\ exchange.reply.kind = "ok"
    /\ exchange.reply.Data = <<Group("radio", <<Station2, Station1, Station2>>)>>
    /\ Len(exchange.responses) = 1
    /\ exchange.responses[1].hasResult

\* The lines of the station block of the text: none when no station is found.
RadioBlockLines(results) ==
    IF Len(FoundStations(results)) >= 1
    THEN <<"", "RADIO STATIONS (" \o NumberToString(Len(FoundStations(results))) \o ")">>
             \o StationBlockLines(FoundStations(results), 1)
    ELSE <<>>

\* The description as the entry shows it.
ShownDescription(chars) ==
    IF Len(chars) > 100
    THEN Concat([i \in 1..100 |-> chars[i]]) \o "..."
    ELSE Concat(chars)

\* The lines of the entry of `podcast` under number `index`.
PodcastLines(podcast, index) ==
    <<NumberToString(index) \o ". " \o podcast.p_name,
      "Category: " \o podcast.cat_name,
      "Language: " \o podcast.p_lang>>
    \o (IF ~podcast.p_desc.present \/ Len(podcast.p_desc.chars) = 0 THEN <<>>
        ELSE <<"Description: " \o ShownDescription(podcast.p_desc.chars)>>)
    \o <<"Streams: " \o ToLocaleString(ParseInt(podcast.total_stream)),
         "Listen: " \o podcast.deeplink>>

RECURSIVE PodcastBlockLines(_, _)
PodcastBlockLines(podcasts, from) ==
    IF from > Len(podcasts) THEN <<>>
    ELSE PodcastLines(podcasts[from], from) \o PodcastBlockLines(podcasts, from + 1)

\* The heading of the podcast block, as the compiled handler writes it
\* (src/unnamed/part_000, line 135), or no heading at all.
PodcastHeadings(n) == {<<"", "PODCASTS (" \o NumberToString(n) \o ")">>, <<>>}

\* C12: when the upstream result holds a podcast group with n >= 1 podcasts, the
\* text of the tools/call response has, between the station block and the
\* call-to-action line, the n podcast entries numbered 1..n in upstream order.
C12_PodcastBlock ==
    (/\ exchange.valid
     /\ exchange.awaited
     /\ RendersResults(exchange.reply)
     /\ Len(FoundPodcasts(exchange.reply.Data)) >= 1)
    => \E heading \in PodcastHeadings(Len(FoundPodcasts(exchange.reply.Data))) :
          AnswersLines(<<HeaderLine(exchange.query)>>
                       \o RadioBlockLines(exchange.reply.Data)
                       \o heading
                       \o PodcastBlockLines(FoundPodcasts(exchange.reply.Data), 1)
                       \o <<"", CallToActionLine>>)

\* The podcast block a text may hold: none, or the heading and the entries.
PodcastBlocks(results) ==
    {<<>>}
    \cup (IF Len(FoundPodcasts(results)) >= 1
          THEN {<<"", "PODCASTS (" \o NumberToString(Len(FoundPodcasts(results))) \o ")">>
                    \o PodcastBlockLines(FoundPodcasts(results), 1)}
          ELSE {})

C14_AtMostOneGet ==
    /\ \A slot \in Slots : Len(inflight[slot].gets) <= 1
    /\ exchange.valid => Len(exchange.gets) <= 1
    /\ (exchange.valid /\ exchange.awaited /\ exchange.reply.kind # "ok")
            => Len(exchange.gets) = 1

C14_Witness ==
    /\ exchange.valid
    /\ exchange.awaited
    /\ exchange.reply.kind = "timeout"
    /\ Len(exchange.gets) = 1
    /\ Len(exchange.responses) = 1

TransportFailures == {"timeout", "network", "status"}

\* C15: when axios.get rejects (timeout, network error or non-2xx status), the
\* request ends with one error envelope with code -32000 and a non-empty
\* message and no result, no exception leaves the handler, and the server is
\* still up to serve later requests.
C15_TransportFailure ==
    (/\ exchange.valid
     /\ exchange.awaited
     /\ exchange.reply.kind \in TransportFailures)
    => /\ AnswersSomeError
       /\ exchange.responses[1].error.message # ""
       /\ ~exchange.escaped
       /\ alive

C15_Witness ==
    /\ exchange.valid
    /\ exchange.awaited
    /\ exchange.reply.kind = "network"
    /\ AnswersError("Network Error")
    /\ alive

\* What the handler answers to `body` alone when its upstream call, issued with
\* the query of `body`, settles with `reply`.
OwnAnswer(body, reply) ==
    Guarded(body, AfterAwait(body, body.params.query, reply)).sent

\* C16: with several requests in flight and their upstream calls settling in
\* any order, every request is answered from its own envelope and its own
\* upstream reply: the upstream GET carries its own query, the response carries
\* its own id and is what the handler answers to that request and reply alone.
C16_NoCrossTalk ==
    /\ \A slot \in Slots :
          inflight[slot].busy =>
              inflight[slot].gets = <<inflight[slot].body.params.query>>
    /\ (exchange.valid /\ exchange.awaited) =>
          /\ exchange.gets = <<exchange.body.params.query>>
          /\ exchange.responses = OwnAnswer(exchange.body, exchange.reply)
          /\ Len(exchange.responses) = 1
          /\ exchange.responses[1].id = exchange.body.id
    /\ (exchange.valid /\ ~exchange.awaited) =>
          exchange.responses = Guarded(exchange.body, TryBlock(exchange.body)).sent

\* A request was answered from its upstream reply while another request, with
\* another id and another query, was still awaiting its own.
C16_Witness ==
    /\ exchange.valid
    /\ exchange.awaited
    /\ Len(exchange.responses) = 1
    /\ exchange.responses[1].hasResult
    /\ \E slot \in Slots :
          /\ inflight[slot].busy
          /\ inflight[slot].body.id # exchange.body.id
          /\ inflight[slot].query # exchange.query

\* What the handler answers to the request of the finished exchange, given
\* that request and its upstream reply and nothing else.
StatelessAnswer ==
    IF exchange.awaited
    THEN OwnAnswer(exchange.body, exchange.reply)
    ELSE Guarded(exchange.body, TryBlock(exchange.body)).sent

\* C17: in every reachable state, whether or not an initialize request was
\* served before and whatever requests succeeded or failed earlier, tools/list
\* is answered with the one-tool list, and every request is answered with what
\* its own body and upstream reply give; a tools/call reaches the upstream call
\* without any handshake.
C17_NoProtocolState ==
    /\ (exchange.valid /\ exchange.body.present /\ exchange.body.method = Str("tools/list"))
            => /\ Len(exchange.responses) = 1
               /\ exchange.responses[1].hasResult
               /\ exchange.responses[1].result.tools = <<SearchTool>>
    /\ exchange.valid => exchange.responses = StatelessAnswer
    /\ (exchange.valid /\ IsToolsCall(exchange.body) /\ exchange.body.params.present
         /\ IsSearchTool(exchange.body.params.name)
         /\ exchange.body.params.hasArgs /\ Truthy(exchange.body.params.query))
            => exchange.awaited

\* A tools/call was answered with results although no initialize was ever served.
C17_Witness ==
    /\ ~initialized
    /\ exchange.valid
    /\ exchange.awaited
    /\ RendersResults(exchange.reply)
    /\ Len(exchange.responses) = 1
    /\ exchange.responses[1].hasResult

\* The same after an initialize was served.
C17_WitnessInitialized ==
    /\ initialized
    /\ exchange.valid
    /\ exchange.awaited
    /\ RendersResults(exchange.reply)
    /\ Len(exchange.responses) = 1
    /\ exchange.responses[1].hasResult

\* C18: formatPodcast shows a description of more than 100 characters as its
\* first 100 characters followed by "...", one of 1 to 100 characters as it is,
\* and has no Description line when the description is absent or empty; the
\* other lines are the numbered name, category, language, streams and link.
C18_Description ==
    formatted.kind = "podcast" =>
        formatted.text = Join(PodcastLines(formatted.podcast, formatted.index), "\n")

\* The call with a description of 101 characters "1234567890123...": the
\* Description line is its first 100 characters and "...".
C18_Witness ==
    /\ formatted.kind = "podcast"
    /\ formatted.index = 1
    /\ formatted.podcast.p_desc.present
    /\ Len(formatted.podcast.p_desc.chars) = 101
    /\ formatted.podcast.total_stream = <<"1", "0", "0", "0">>
    /\ formatted.text =
          "1. News Daily\nCategory: News\nLanguage: Hindi\nDescription: "
          \o "12345678901234567890123456789012345678901234567890"
          \o "12345678901234567890123456789012345678901234567890"
          \o "...\nStreams: 1,000\nListen: https://radiofm.co/p/2"

\* C19: formatRadioStation gives, in this order, the numbered name, location,
\* language, genre, stream, plays and listen lines for every station, with the
\* Frequency line between genre and stream exactly when st_bc_freq is not "~"
\* (an empty or absent st_bc_freq is not the sentinel: the line is there).
C19_FrequencyLine ==
    formatted.kind = "station" =>
        formatted.text = Join(StationLines(formatted.station, formatted.index), "\n")

\* The call with st_bc_freq "98.3": eight lines, Frequency the fifth.
C19_Witness ==
    /\ formatted.kind = "station"
    /\ formatted.index = 2
    /\ formatted.station = Station2
    /\ formatted.text =
          "2. Jazz FM\nLocation: Mumbai, Maharashtra, India\nLanguage: Hindi\nGenre: Jazz"
          \o "\nFrequency: 98.3\nStream: aac 64kbps\nPlays: 42"
          \o "\nListen:'https://appradiofm.com/radioplay/' jazzfm"

\* The call with the sentinel: seven lines, no Frequency line.
C19_WitnessSentinel ==
    /\ formatted.kind = "station"
    /\ formatted.index = 1
    /\ formatted.station = [Station2 EXCEPT !.st_bc_freq = Str("~")]
    /\ formatted.text =
          "1. Jazz FM\nLocation: Mumbai, Maharashtra, India\nLanguage: Hindi\nGenre: Jazz"
          \o "\nStream: aac 64kbps\nPlays: 42"
          \o "\nListen:'https://appradiofm.com/radioplay/' jazzfm"

\* The request is a tools/call naming the search tool with a query the
\* handler's check `!query` lets through.
PassesBothChecks(body) ==
    /\ body.present
    /\ body.method = Str("tools/call")
    /\ body.params.present
    /\ body.params.name = Str("search_radio_stations")
    /\ body.params.hasArgs
    /\ Truthy(body.params.query)

\* C20: an upstream GET is issued only after both checks passed: a request
\* awaiting its upstream call passed both and has issued exactly one GET; a
\* finished request that passed both has issued exactly one; every other request
\* (initialize, tools/list, unknown method, unknown tool, missing or empty query)
\* has finished with none.
C20_ValidationFirst ==
    /\ \A slot \in Slots :
          inflight[slot].busy =>
              PassesBothChecks(inflight[slot].body) /\ Len(inflight[slot].gets) = 1
    /\ (exchange.valid /\ PassesBothChecks(exchange.body))
            => exchange.awaited /\ Len(exchange.gets) = 1
    /\ (exchange.valid /\ ~PassesBothChecks(exchange.body))
            => ~exchange.awaited /\ exchange.gets = <<>>

\* A tools/call for the search tool with the empty query was refused with no GET.
C20_Witness ==
    /\ exchange.valid
    /\ exchange.body.present
    /\ exchange.body.method = Str("tools/call")
    /\ exchange.body.params.name = Str("search_radio_stations")
    /\ exchange.body.params.hasArgs
    /\ exchange.body.params.query = Str("")
    /\ exchange.gets = <<>>
    /\ AnswersError("Search query is required")

\* A tools/call that passed both checks finished with its one GET.
C20_WitnessCalled ==
    /\ exchange.valid
    /\ PassesBothChecks(exchange.body)
    /\ exchange.gets = <<Str("jazz")>>

\* No group of the list is tagged "radio".
NoRadioGroup(results) == \A i \in 1..Len(results) : results[i].type # "radio"

\* The first group tagged "radio" has no station (a later one may have some).
FirstRadioGroupEmpty(results) ==
    \E i \in 1..Len(results) :
        /\ results[i].type = "radio"
        /\ results[i].data = <<>>
        /\ \A j \in 1..(i - 1) : results[j].type # "radio"

\* C21: when the upstream Data list is non-empty and has no group tagged "radio",
\* or its first group tagged "radio" has no station, the handler of
\* src/src/index.ts answers with a result envelope whose text is the header
\* line, a blank line and the call-to-action line: neither the no-results
\* message nor an error.
C21_NothingRendered ==
    (/\ exchange.valid
     /\ exchange.awaited
     /\ RendersResults(exchange.reply)
     /\ (NoRadioGroup(exchange.reply.Data) \/ FirstRadioGroupEmpty(exchange.reply.Data)))
    => /\ AnswersLines(<<HeaderLine(exchange.query), "", CallToActionLine>>)
       /\ exchange.responses[1].result.content[1].text # NoResultsText(exchange.query)

\* The empty "radio" group came first and a later one had a station.
C21_Witness ==
    /\ exchange.valid
    /\ exchange.awaited
    /\ exchange.reply.kind = "ok"
    /\ exchange.reply.Data = <<Group("radio", <<>>), Group("radio", <<Station1>>)>>
    /\ Len(exchange.responses) = 1
    /\ exchange.responses[1].hasResult

\* The list held a podcast group only.
C21_WitnessPodcastOnly ==
    /\ exchange.valid
    /\ exchange.awaited
    /\ exchange.reply.kind = "ok"
    /\ exchange.reply.Data = <<Group("podcast", <<Podcast1>>)>>
    /\ Len(exchange.responses) = 1
    /\ exchange.responses[1].hasResult

\* The 2xx upstream reply is malformed: no data field, or an ErrorCode that is
\* absent or is not the number 0.
Malformed(reply) ==
    /\ reply.kind = "ok"
    /\ (~reply.hasData \/ reply.ErrorCode.t # "number" \/ reply.ErrorCode.n # 0)

\* C22: a tools/call whose upstream reply has no data field, or an ErrorCode
\* that is absent or is not the number 0 (the string "0" included), ends with
\* one error envelope with code -32000 and no result; its message is never
\* empty: the upstream ErrorMessage when that is a non-empty string, and
\* "Internal server error" when the reply has a data field whose ErrorMessage
\* is absent or empty.
C22_MalformedReply ==
    (/\ exchange.valid
     /\ exchange.awaited
     /\ Malformed(exchange.reply))
    => /\ AnswersSomeError
       /\ exchange.responses[1].error.message # ""
       /\ (exchange.reply.hasData /\ NonEmptyString(exchange.reply.ErrorMessage))
              => exchange.responses[1].error.message = exchange.reply.ErrorMessage.s
       /\ (exchange.reply.hasData /\ exchange.reply.ErrorMessage \in {Undefined, Str("")})
              => exchange.responses[1].error.message = "Internal server error"

\* The reply said ErrorCode "0" with an empty ErrorMessage and a station list.
C22_Witness ==
    /\ exchange.valid
    /\ exchange.awaited
    /\ exchange.reply.kind = "ok"
    /\ exchange.reply.ErrorCode = Str("0")
    /\ exchange.reply.hasResults
    /\ AnswersError("Internal server error")

\* The reply had no data field.
C22_WitnessNoData ==
    /\ exchange.valid
    /\ exchange.awaited
    /\ exchange.reply.kind = "ok"
    /\ ~exchange.reply.hasData
    /\ AnswersError("Cannot read properties of undefined (reading 'ErrorCode')")

====
